---- MODULE Spec2Model ----
(***************************************************************************)
(* os-timer: one Timer shared by caller threads, over three native         *)
(* backends: the dispatch-queue source (src/timer/apple.rs), the POSIX     *)
(* interval timer (src/timer/posix.rs) and the thread-pool timer           *)
(* (src/timer/win32.rs).                                                   *)
(*                                                                         *)
(* Every init/new call consumes a fresh Callback, numbered c in CbIds; the *)
(* native object that call creates carries the same number, so the handle  *)
(* slot `inner` holds 0 or a call number.  A machine word is a pair        *)
(* <<tag, c>>: the null word, the address of plain function c, the heap    *)
(* address of closure c, or the address of the stack local `cb` of the     *)
(* init call that consumed callback c.                                     *)
(***************************************************************************)
EXTENDS Integers, Sequences, FiniteSets, TLC

MaxCb == 2        \* Callback values built, one per init/new call
MaxFire == 1      \* firings the native side dispatches while callers race
MaxFireSeq == 2   \* firings the native side dispatches to a single caller

Backends == {"apple", "posix", "win32"}
Threads == {1, 2}         \* the caller threads sharing the Timer
Owner == 0               \* the owner of the Timer value, who drops it
CbIds == 1..MaxCb
Kinds == {"plain", "unsafe_plain", "closure"}
\* Durations in whole seconds.  The native timers below tell a zero timeout or
\* interval from a non-zero one and nothing more, so one non-zero value stands
\* for all of them.
Durations == {0, 1}

Null == <<"null", 0>>
FnAddr(c) == <<"fn", c>>
HeapAddr(c) == <<"heap", c>>
StackAddr(c) == <<"stack", c>>

VARIABLES
    backend,    \* which of the three Timer implementations is compiled in
    life,       \* "unborn", "alive", "absent" (new returned None), "dropping", "dead"
    inner,      \* Timer.inner: the handle slot
    data,       \* Timer.data: callback storage (BoxFnPtr / FatPtr)
    suspend,    \* Timer.suspend (dispatch-queue backend only)
    kind,       \* kind[c]: how Callback c was built
    heap,       \* heap[c]: state of the Box allocation of closure c
    obj,        \* obj[c]: the native timer object created by call c
    inflight,   \* inflight[c]: firings of object c dispatched and not yet finished
    pc,         \* pc[t]: position of thread t inside its current call
    op,         \* op[t]: the call thread t is executing
    cur,        \* cur[t]: the Callback of the init call thread t is executing
    initRet,    \* initRet[c]: what the init/new call that took Callback c returned
    viaNew,     \* the Timer was built by Timer::new
    started,    \* number of firings dispatched so far
    seq,        \* a single caller thread uses the Timer
    hist,       \* single caller: the last schedule/cancel calls it made, with timeout and interval
    arg,        \* the Durations of a schedule call whose conversion is examined
    native      \* the integers that call hands to the native timer

vars == <<backend, life, inner, data, suspend, kind, heap, obj, inflight, pc, op,
          cur, initRet, viaNew, started, seq, hist, arg, native>>

timerVars == <<inner, data, suspend>>
heapVars == <<kind, heap, initRet>>
fireVars == <<started, inflight>>
threadVars == <<pc, op, cur>>
confVars == <<backend, seq, arg, native>>

----------------------------------------------------------------------------
(* The native timer object, as the three native interfaces describe it.    *)

NoObj ==
    [st |-> "none", cb |-> "none", ctx |-> Null, armed |-> FALSE,
     periodic |-> FALSE, interval |-> 0, susp |-> 0, cancelled |-> FALSE]

\* posix_timer(clock, cb, data): the callback and its word are fixed at creation.
posix_timer(cb, word) ==
    [NoObj EXCEPT !.st = "live", !.cb = cb, !.ctx = word]

\* dispatch_source_create: a source is created suspended, with no handler.
dispatch_source_create ==
    [NoObj EXCEPT !.st = "live", !.susp = 1]

\* CreateThreadpoolTimer(cb, user_data, env)
CreateThreadpoolTimer(cb, word) ==
    [NoObj EXCEPT !.st = "live", !.cb = cb, !.ctx = word]

----------------------------------------------------------------------------
(* Callback: the erased callable and the trampoline that matches it.       *)

\* Callback::plain / unsafe_plain / closure of apple.rs and posix.rs.
Callback(k, c) ==
    CASE k = "plain" ->
           [id |-> c, variant |-> "Trivial", word |-> FnAddr(c), ffi_cb |-> "timer_callback"]
      [] k = "unsafe_plain" ->
           [id |-> c, variant |-> "Trivial", word |-> FnAddr(c), ffi_cb |-> "timer_callback_unsafe"]
      [] k = "closure" ->
           [id |-> c, variant |-> "Boxed", word |-> HeapAddr(c), ffi_cb |-> "timer_callback_generic"]

\* Callback::plain / unsafe_plain / closure of win32.rs.
Callback_win32(k, c) ==
    CASE k = "plain" ->
           [id |-> c, variant |-> "Plain", word |-> FnAddr(c), ffi_cb |-> "timer_callback"]
      [] k = "unsafe_plain" ->
           [id |-> c, variant |-> "PlainUnsafe", word |-> FnAddr(c), ffi_cb |-> "timer_callback_unsafe"]
      [] k = "closure" ->
           [id |-> c, variant |-> "Closure", word |-> HeapAddr(c), ffi_cb |-> "timer_callback_generic"]

\* The Callback value that call c was given.
cbOf(c) ==
    IF backend = "win32" THEN Callback_win32(kind[c], c) ELSE Callback(kind[c], c)

\* Box::new in Callback::closure: the closure moves to the heap.
Box_new(h, k, c) ==
    IF k = "closure" THEN [h EXCEPT ![c] = "live"] ELSE h

\* Box::from_raw followed by the drop of the Box: the allocation is reclaimed.
Box_from_raw(h, c) ==
    [h EXCEPT ![c] = IF @ = "live" THEN "freed" ELSE "double"]

\* A Callback value going out of scope: a Boxed/Closure variant frees its Box.
Callback_drop(h, cb) ==
    IF cb.variant \in {"Boxed", "Closure"} THEN Box_from_raw(h, cb.id) ELSE h

\* BoxFnPtr going out of scope: a non-null word is reclaimed as a Box.
BoxFnPtr_drop(h, w) ==
    IF w = Null THEN h ELSE Box_from_raw(h, w[2])

\* `match cb.variant` of posix.rs init/new, apple.rs init/new and win32.rs new:
\* the word kept in callback storage and the word handed to the native object.
into_words(cb) ==
    IF cb.variant \in {"Boxed", "Closure"}
        THEN [data |-> cb.word, ffi_data |-> cb.word]
        ELSE [data |-> Null, ffi_data |-> cb.word]

\* `match cb.variant` at the head of win32.rs init: `Closure(ref cb) => &*cb`
\* is the address of the Box held in the local `cb`, not of the closure.
win32_init_ffi_data(cb) ==
    IF cb.variant = "Closure" THEN StackAddr(cb.id) ELSE cb.word

----------------------------------------------------------------------------
(* Timer state as the methods read it.                                     *)

\* Timer::is_init
is_init == inner # 0

\* A plain store in place of compare_exchange.
compare_exchange_store(v, expected, new) == [ok |-> TRUE, val |-> new]

\* A compare_exchange whose result is taken for Ok whatever it is.
compare_exchange_unchecked(v, expected, new) ==
    [ok |-> TRUE, val |-> IF v = expected THEN new ELSE v]

\* A swap that stores the new value whatever the slot holds and reports
\* whether the slot held the expected one.
compare_exchange_swap(v, expected, new) == [ok |-> v = expected, val |-> new]

\* AtomicUsize/AtomicPtr::compare_exchange(expected, new) on a slot holding v.
compare_exchange(v, expected, new) ==
    IF v = expected THEN [ok |-> TRUE, val |-> new] ELSE [ok |-> FALSE, val |-> v]

\* The number of the next Callback to be built.
NextCb == Cardinality({c \in CbIds : kind[c] # "none"}) + 1

\* The local `handle` of the init call on Callback c: 0 when creation failed.
handleOf(c) == IF obj[c].st = "live" THEN c ELSE 0

Busy(t) == pc[t] # "idle"

\* The caller threads in use.
Callers == IF seq THEN {1} ELSE Threads

\* Idle threads carry no state, so the lowest idle one stands for any of them.
FirstIdle(t) == t \in Callers /\ ~Busy(t) /\ \A u \in Callers : u < t => Busy(u)

\* The cap on dispatched firings.
FireCap == IF seq THEN MaxFireSeq ELSE MaxFire

Recorded == {"schedule_once", "schedule_interval", "schedule_interval_failed", "cancel"}

\* The calls of apple.rs that begin with suspend().
Suspending == {"schedule", "cancel"}

Last2(s) == IF Len(s) > 2 THEN SubSeq(s, Len(s) - 1, Len(s)) ELSE s

\* The record of a single caller's completed schedule/cancel calls.
Record(o, d, i) ==
    IF seq /\ o \in Recorded THEN Last2(Append(hist, <<o, d, i>>)) ELSE hist

\* Thread t enters call o, continuing at p.
Enter(t, o, p, c) ==
    /\ pc' = [pc EXCEPT ![t] = p]
    /\ op' = [op EXCEPT ![t] = o]
    /\ cur' = [cur EXCEPT ![t] = c]
    /\ hist' = hist

\* Thread t moves on inside its call.
Goto(t, p) ==
    /\ pc' = [pc EXCEPT ![t] = p]
    /\ UNCHANGED <<op, cur, hist>>

\* Thread t returns from its call o.
Leave(t, o) ==
    /\ pc' = [pc EXCEPT ![t] = "idle"]
    /\ op' = [op EXCEPT ![t] = "none"]
    /\ cur' = [cur EXCEPT ![t] = 0]
    /\ hist' = Record(o, 0, 0)

\* Thread t makes call o with timeout d and interval i, which is one atomic step.
Atomic(t, o, d, i) ==
    /\ UNCHANGED <<pc, op, cur>>
    /\ hist' = Record(o, d, i)

----------------------------------------------------------------------------
InitTimer ==
    /\ backend \in Backends
    /\ life = "unborn"
    /\ inner = 0
    /\ data = Null
    /\ suspend = TRUE
    /\ kind = [c \in CbIds |-> "none"]
    /\ heap = [c \in CbIds |-> "none"]
    /\ obj = [c \in CbIds |-> NoObj]
    /\ inflight = [c \in CbIds |-> 0]
    /\ pc = [t \in {Owner} \cup Threads |-> "idle"]
    /\ op = [t \in {Owner} \cup Threads |-> "none"]
    /\ cur = [t \in {Owner} \cup Threads |-> 0]
    /\ initRet = [c \in CbIds |-> "none"]
    /\ viaNew = FALSE
    /\ started = 0
    /\ hist = <<>>

\* Caller threads race on the Timer.
Init == InitTimer /\ seq = FALSE /\ arg = <<>> /\ native = <<>>

\* A single caller thread uses the Timer.
InitSeq == InitTimer /\ seq = TRUE /\ arg = <<>> /\ native = <<>>

\* Timer::uninit
uninit ==
    /\ life = "unborn"
    /\ life' = "alive"
    /\ inner' = 0
    /\ data' = Null
    /\ suspend' = TRUE
    /\ UNCHANGED <<confVars, heapVars, obj, fireVars, threadVars, viaNew, hist>>

\* Timer::new of posix.rs, past the `handle == 0` test: the Timer it returns and
\* the native object behind it.
posix_new_timer(k, c) ==
    LET cb == Callback(k, c)
        w == into_words(cb)
    IN [inner |-> c, data |-> w.data, suspend |-> TRUE,
        native |-> posix_timer(cb.ffi_cb, w.ffi_data)]

\* Timer::new of posix.rs
posix_new(k, ok) ==
    /\ backend = "posix" /\ life = "unborn" /\ NextCb <= MaxCb
    /\ LET c == NextCb
           r == posix_new_timer(k, c)
           h == Box_new(heap, k, c)
       IN /\ kind' = [kind EXCEPT ![c] = k]
          /\ IF ok
               THEN /\ obj' = [obj EXCEPT ![c] = r.native]
                    /\ life' = "alive"
                    /\ inner' = r.inner
                    /\ data' = r.data
                    /\ heap' = h
                    /\ initRet' = [initRet EXCEPT ![c] = "true"]
               ELSE /\ obj' = [obj EXCEPT ![c].st = "failed"]
                    /\ life' = "absent"
                    /\ heap' = BoxFnPtr_drop(h, r.data)
                    /\ initRet' = [initRet EXCEPT ![c] = "false"]
                    /\ UNCHANGED <<inner, data>>
    /\ viaNew' = TRUE
    /\ UNCHANGED <<confVars, suspend, fireVars, threadVars, hist>>

\* Timer::new of apple.rs, past the `handle.is_null()` test: the Timer it returns
\* and the native object behind it.
apple_new_timer(k, c) ==
    LET cb == Callback(k, c)
        w == into_words(cb)
    IN [inner |-> c, data |-> w.data, suspend |-> TRUE,
        native |-> [dispatch_source_create EXCEPT !.cb = cb.ffi_cb, !.ctx = w.ffi_data]]

\* Timer::new of apple.rs
apple_new(k, ok) ==
    /\ backend = "apple" /\ life = "unborn" /\ NextCb <= MaxCb
    /\ LET c == NextCb
           r == apple_new_timer(k, c)
           h == Box_new(heap, k, c)
       IN /\ kind' = [kind EXCEPT ![c] = k]
          /\ IF ok
               THEN /\ obj' = [obj EXCEPT ![c] = r.native]
                    /\ life' = "alive"
                    /\ inner' = r.inner
                    /\ suspend' = r.suspend
                    /\ data' = r.data
                    /\ heap' = h
                    /\ initRet' = [initRet EXCEPT ![c] = "true"]
               ELSE /\ obj' = [obj EXCEPT ![c].st = "failed"]
                    /\ life' = "absent"
                    /\ heap' = Callback_drop(h, Callback(k, c))
                    /\ initRet' = [initRet EXCEPT ![c] = "false"]
                    /\ UNCHANGED <<inner, data, suspend>>
    /\ viaNew' = TRUE
    /\ UNCHANGED <<confVars, fireVars, threadVars, hist>>

\* Timer::new of win32.rs, past the `handle.is_null()` test: the Timer it returns
\* and the native object behind it.
win32_new_timer(k, c) ==
    LET cb == Callback_win32(k, c)
        w == into_words(cb)
    IN [inner |-> c, data |-> w.data, suspend |-> TRUE,
        native |-> CreateThreadpoolTimer(cb.ffi_cb, w.ffi_data)]

\* Timer::new of win32.rs: on failure the raw word is dropped as a plain integer.
win32_new(k, ok) ==
    /\ backend = "win32" /\ life = "unborn" /\ NextCb <= MaxCb
    /\ LET c == NextCb
           r == win32_new_timer(k, c)
       IN /\ kind' = [kind EXCEPT ![c] = k]
          /\ heap' = Box_new(heap, k, c)
          /\ IF ok
               THEN /\ obj' = [obj EXCEPT ![c] = r.native]
                    /\ life' = "alive"
                    /\ inner' = r.inner
                    /\ data' = r.data
                    /\ initRet' = [initRet EXCEPT ![c] = "true"]
               ELSE /\ obj' = [obj EXCEPT ![c].st = "failed"]
                    /\ life' = "absent"
                    /\ initRet' = [initRet EXCEPT ![c] = "false"]
                    /\ UNCHANGED <<inner, data>>
    /\ viaNew' = TRUE
    /\ UNCHANGED <<confVars, suspend, fireVars, threadVars, hist>>

----------------------------------------------------------------------------
(* Timer::init.  A native call or an access to the shared slots is a step. *)

\* Timer::init without the `if self.is_init() { return false; }` test.
init_no_check(t, k) ==
    /\ life = "alive" /\ FirstIdle(t) /\ NextCb <= MaxCb
    /\ LET c == NextCb
       IN /\ kind' = [kind EXCEPT ![c] = k]
          /\ initRet' = [initRet EXCEPT ![c] = "running"]
          /\ heap' = Box_new(heap, k, c)
          /\ Enter(t, "init", "init_create", c)
    /\ UNCHANGED <<confVars, life, timerVars, obj, fireVars, viaNew>>

\* Entry of Timer::init on all three backends: `if self.is_init() { return false; }`.
\* The Callback was built by the caller just before; on the early return it is
\* dropped unused.
init(t, k) ==
    /\ life = "alive" /\ FirstIdle(t) /\ NextCb <= MaxCb
    /\ LET c == NextCb
           h == Box_new(heap, k, c)
           cb == IF backend = "win32" THEN Callback_win32(k, c) ELSE Callback(k, c)
       IN /\ kind' = [kind EXCEPT ![c] = k]
          /\ IF is_init
               THEN /\ initRet' = [initRet EXCEPT ![c] = "false"]
                    /\ heap' = Callback_drop(h, cb)
                    /\ Atomic(t, "init", 0, 0)
               ELSE /\ initRet' = [initRet EXCEPT ![c] = "running"]
                    /\ heap' = h
                    /\ Enter(t, "init", "init_create", c)
    /\ UNCHANGED <<confVars, life, timerVars, obj, fireVars, viaNew>>

\* posix.rs init: Box::into_raw, then posix_timer(CLOCK_MONOTONIC, ffi_cb, ffi_data).
posix_init_create(t, ok) ==
    /\ backend = "posix" /\ pc[t] = "init_create"
    /\ LET c == cur[t]
           cb == cbOf(c)
       IN obj' = [obj EXCEPT ![c] =
                    IF ok THEN posix_timer(cb.ffi_cb, into_words(cb).ffi_data)
                          ELSE [NoObj EXCEPT !.st = "failed"]]
    /\ Goto(t, "init_cas")
    /\ UNCHANGED <<confVars, life, timerVars, heapVars, fireVars, viaNew>>

\* posix.rs init whose Ok arm does not look at the handle.
posix_init_cas_no_null_test(t) ==
    /\ backend = "posix" /\ pc[t] = "init_cas"
    /\ LET c == cur[t]
           r == compare_exchange(inner, 0, handleOf(c))
       IN /\ inner' = r.val
          /\ IF r.ok THEN Goto(t, "init_set_data") ELSE Goto(t, "init_destroy")
    /\ UNCHANGED <<confVars, life, data, suspend, kind, obj, fireVars, viaNew, initRet, heap>>

\* posix.rs init: self.inner.compare_exchange(0, handle); on Ok with handle 0
\* the call returns false and the local BoxFnPtr goes out of scope.
posix_init_cas(t) ==
    /\ backend = "posix" /\ pc[t] = "init_cas"
    /\ LET c == cur[t]
           r == compare_exchange(inner, 0, handleOf(c))
       IN /\ inner' = r.val
          /\ IF r.ok
               THEN IF handleOf(c) = 0
                      THEN /\ initRet' = [initRet EXCEPT ![c] = "false"]
                           /\ heap' = BoxFnPtr_drop(heap, into_words(cbOf(c)).data)
                           /\ Leave(t, "init")
                      ELSE /\ Goto(t, "init_set_data")
                           /\ UNCHANGED <<initRet, heap>>
               ELSE /\ Goto(t, "init_destroy")
                    /\ UNCHANGED <<initRet, heap>>
    /\ UNCHANGED <<confVars, life, data, suspend, kind, obj, fireVars, viaNew>>

\* posix.rs init: self.data.set(data); true.  Cell::set drops the value it replaces.
posix_init_set_data(t) ==
    /\ backend = "posix" /\ pc[t] = "init_set_data"
    /\ LET c == cur[t]
       IN /\ data' = into_words(cbOf(c)).data
          /\ heap' = BoxFnPtr_drop(heap, data)
          /\ initRet' = [initRet EXCEPT ![c] = "true"]
    /\ Leave(t, "init")
    /\ UNCHANGED <<confVars, life, inner, suspend, kind, obj, fireVars, viaNew>>

\* timer_delete(timerid)
timer_delete(o) == [o EXCEPT !.st = "closed", !.armed = FALSE]

\* posix.rs init, Err arm: ffi::timer_delete(handle); false.  The local BoxFnPtr
\* goes out of scope.
posix_init_destroy(t) ==
    /\ backend = "posix" /\ pc[t] = "init_destroy"
    /\ LET c == cur[t]
       IN /\ obj' = IF handleOf(c) = 0 THEN obj
                     ELSE [obj EXCEPT ![c] = timer_delete(@)]
          /\ heap' = BoxFnPtr_drop(heap, into_words(cbOf(c)).data)
          /\ initRet' = [initRet EXCEPT ![c] = "false"]
    /\ Leave(t, "init")
    /\ UNCHANGED <<confVars, life, timerVars, kind, fireVars, viaNew>>

\* apple.rs init: dispatch_get_global_queue, dispatch_source_create.
apple_init_create(t, ok) ==
    /\ backend = "apple" /\ pc[t] = "init_create"
    /\ obj' = [obj EXCEPT ![cur[t]] =
                 IF ok THEN dispatch_source_create ELSE [NoObj EXCEPT !.st = "failed"]]
    /\ Goto(t, "init_cas")
    /\ UNCHANGED <<confVars, life, timerVars, heapVars, fireVars, viaNew>>

\* apple.rs init: self.inner.compare_exchange(null, handle); on Ok with a null
\* handle the call returns false and `cb` is dropped.
apple_init_cas(t) ==
    /\ backend = "apple" /\ pc[t] = "init_cas"
    /\ LET c == cur[t]
           r == compare_exchange(inner, 0, handleOf(c))
       IN /\ inner' = r.val
          /\ IF r.ok
               THEN IF handleOf(c) = 0
                      THEN /\ initRet' = [initRet EXCEPT ![c] = "false"]
                           /\ heap' = Callback_drop(heap, cbOf(c))
                           /\ Leave(t, "init")
                      ELSE /\ Goto(t, "init_set_handler")
                           /\ UNCHANGED <<initRet, heap>>
               ELSE /\ Goto(t, "init_destroy")
                    /\ UNCHANGED <<initRet, heap>>
    /\ UNCHANGED <<confVars, life, data, suspend, kind, obj, fireVars, viaNew>>

\* apple.rs init: Box::into_raw, then dispatch_source_set_event_handler_f(handle, ffi_cb).
apple_init_set_handler(t) ==
    /\ backend = "apple" /\ pc[t] = "init_set_handler"
    /\ obj' = [obj EXCEPT ![cur[t]].cb = cbOf(cur[t]).ffi_cb]
    /\ Goto(t, "init_set_context")
    /\ UNCHANGED <<confVars, life, timerVars, heapVars, fireVars, viaNew>>

\* apple.rs init: dispatch_set_context(handle, ffi_data).
apple_init_set_context(t) ==
    /\ backend = "apple" /\ pc[t] = "init_set_context"
    /\ obj' = [obj EXCEPT ![cur[t]].ctx = into_words(cbOf(cur[t])).ffi_data]
    /\ Goto(t, "init_set_data")
    /\ UNCHANGED <<confVars, life, timerVars, heapVars, fireVars, viaNew>>

\* apple.rs init: self.data.set(BoxFnPtr(data)); true.
apple_init_set_data(t) ==
    /\ backend = "apple" /\ pc[t] = "init_set_data"
    /\ LET c == cur[t]
       IN /\ data' = into_words(cbOf(c)).data
          /\ heap' = BoxFnPtr_drop(heap, data)
          /\ initRet' = [initRet EXCEPT ![c] = "true"]
    /\ Leave(t, "init")
    /\ UNCHANGED <<confVars, life, inner, suspend, kind, obj, fireVars, viaNew>>

\* dispatch_release(object): releasing a suspended object is an error.
dispatch_release(o) == [o EXCEPT !.st = "closed", !.armed = FALSE]

\* apple.rs init, Err arm: ffi::dispatch_release(handle); false.  `cb` is dropped.
apple_init_destroy(t) ==
    /\ backend = "apple" /\ pc[t] = "init_destroy"
    /\ LET c == cur[t]
       IN /\ obj' = IF handleOf(c) = 0 THEN obj
                     ELSE [obj EXCEPT ![c] = dispatch_release(@)]
          /\ heap' = Callback_drop(heap, cbOf(c))
          /\ initRet' = [initRet EXCEPT ![c] = "false"]
    /\ Leave(t, "init")
    /\ UNCHANGED <<confVars, life, timerVars, kind, fireVars, viaNew>>

\* win32.rs init: CreateThreadpoolTimer(ffi_cb, ffi_data, null).
win32_init_create(t, ok) ==
    /\ backend = "win32" /\ pc[t] = "init_create"
    /\ LET c == cur[t]
           cb == cbOf(c)
       IN obj' = [obj EXCEPT ![c] =
                    IF ok THEN CreateThreadpoolTimer(cb.ffi_cb, win32_init_ffi_data(cb))
                          ELSE [NoObj EXCEPT !.st = "failed"]]
    /\ Goto(t, "init_cas")
    /\ UNCHANGED <<confVars, life, timerVars, heapVars, fireVars, viaNew>>

\* win32.rs init: self.inner.compare_exchange(null, handle); on Ok with a null
\* handle the call returns false and `cb` is dropped.
win32_init_cas(t) ==
    /\ backend = "win32" /\ pc[t] = "init_cas"
    /\ LET c == cur[t]
           r == compare_exchange(inner, 0, handleOf(c))
       IN /\ inner' = r.val
          /\ IF r.ok
               THEN IF handleOf(c) = 0
                      THEN /\ initRet' = [initRet EXCEPT ![c] = "false"]
                           /\ heap' = Callback_drop(heap, cbOf(c))
                           /\ Leave(t, "init")
                      ELSE /\ Goto(t, "init_set_data")
                           /\ UNCHANGED <<initRet, heap>>
               ELSE /\ Goto(t, "init_destroy")
                    /\ UNCHANGED <<initRet, heap>>
    /\ UNCHANGED <<confVars, life, data, suspend, kind, obj, fireVars, viaNew>>

\* win32.rs init storing the callback word whatever the variant is.
win32_init_set_data_always(t) ==
    /\ backend = "win32" /\ pc[t] = "init_set_data"
    /\ LET c == cur[t]
           cb == cbOf(c)
       IN /\ data' = cb.word
          /\ initRet' = [initRet EXCEPT ![c] = "true"]
    /\ Leave(t, "init")
    /\ UNCHANGED <<confVars, life, inner, suspend, kind, heap, obj, fireVars, viaNew>>

\* win32.rs init: `Closure(cb) => self.data.set(transmute(Box::into_raw(cb)))`; true.
win32_init_set_data(t) ==
    /\ backend = "win32" /\ pc[t] = "init_set_data"
    /\ LET c == cur[t]
           cb == cbOf(c)
       IN /\ data' = IF cb.variant = "Closure" THEN cb.word ELSE data
          /\ initRet' = [initRet EXCEPT ![c] = "true"]
    /\ Leave(t, "init")
    /\ UNCHANGED <<confVars, life, inner, suspend, kind, heap, obj, fireVars, viaNew>>

\* CloseThreadpoolTimer(timer)
CloseThreadpoolTimer(o) == [o EXCEPT !.st = "closed", !.armed = FALSE]

\* win32.rs init, Err arm: ffi::CloseThreadpoolTimer(handle); false.  `cb` is dropped.
win32_init_destroy(t) ==
    /\ backend = "win32" /\ pc[t] = "init_destroy"
    /\ LET c == cur[t]
       IN /\ obj' = IF handleOf(c) = 0 THEN obj
                     ELSE [obj EXCEPT ![c] = CloseThreadpoolTimer(@)]
          /\ heap' = Callback_drop(heap, cbOf(c))
          /\ initRet' = [initRet EXCEPT ![c] = "false"]
    /\ Leave(t, "init")
    /\ UNCHANGED <<confVars, life, timerVars, kind, fireVars, viaNew>>

----------------------------------------------------------------------------
(* The native arm, disarm and query calls.                                 *)

DISPATCH_TIME_FOREVER == -1   \* stands for !0, the all-ones dispatch_time_t

\* posix.rs schedule_interval: a Duration of whole seconds as a timespec.
timespec(d) == [tv_sec |-> d, tv_nsec |-> 0]

ZERO_TIMESPEC == [tv_sec |-> 0, tv_nsec |-> 0]

\* ffi::ZERO_TIMER_DURATION
ZERO_TIMER_DURATION == [it_interval |-> ZERO_TIMESPEC, it_value |-> ZERO_TIMESPEC]

\* timer_settime(timerid, 0, new_value, null): a zero it_value disarms the timer
\* whatever it_interval says; whether the reload value is then kept or cleared
\* differs between systems (keep).
timer_settime(o, new_value, keep) ==
    IF new_value.it_value = ZERO_TIMESPEC
        THEN [o EXCEPT !.armed = FALSE, !.periodic = FALSE,
                       !.interval = IF keep THEN new_value.it_interval.tv_sec ELSE 0]
        ELSE [o EXCEPT !.armed = TRUE,
                       !.periodic = (new_value.it_interval # ZERO_TIMESPEC),
                       !.interval = new_value.it_interval.tv_sec]

\* timer_gettime(timerid, curr_value): the time left (non-zero while armed) and
\* the reload value.
timer_gettime(o) ==
    [it_interval |-> timespec(o.interval),
     it_value |-> IF o.armed THEN [tv_sec |-> 0, tv_nsec |-> 1] ELSE ZERO_TIMESPEC]

\* dispatch_source_set_timer(source, start, interval, leeway): one-shot only for
\* DISPATCH_TIME_FOREVER.
dispatch_source_set_timer(o, interval) ==
    [o EXCEPT !.armed = TRUE, !.periodic = (interval # DISPATCH_TIME_FOREVER)]

\* dispatch_suspend(object)
dispatch_suspend(o) == [o EXCEPT !.susp = @ + 1]

\* dispatch_resume(object): resuming an object that is not suspended is an error.
dispatch_resume(o) == [o EXCEPT !.susp = IF @ > 0 THEN @ - 1 ELSE 0]

\* dispatch_source_cancel(object): asynchronous; no further handler invocation
\* is started, one in progress is not waited for.
dispatch_source_cancel(o) == [o EXCEPT !.cancelled = TRUE]

\* SetThreadpoolTimerEx(timer, pftDueTime, msPeriod, 0): a null due time stops
\* the timer, a zero period makes it fire once.
SetThreadpoolTimerEx(o, due, period) ==
    IF due = Null
        THEN [o EXCEPT !.armed = FALSE, !.periodic = FALSE]
        ELSE [o EXCEPT !.armed = TRUE, !.periodic = (period # 0)]

----------------------------------------------------------------------------
(* schedule_once, schedule_interval, is_scheduled, cancel.                 *)

\* Timer::is_scheduled of posix.rs
posix_is_scheduled ==
    IF obj[inner].st # "live" THEN FALSE
    ELSE timer_gettime(obj[inner]) # ZERO_TIMER_DURATION

\* Timer::is_scheduled of apple.rs
apple_is_scheduled == ~suspend

\* The call is_scheduled() on the compiled-in backend, where it exists.
is_scheduled ==
    IF backend = "posix" THEN posix_is_scheduled ELSE apple_is_scheduled

Callable(t) == life = "alive" /\ FirstIdle(t) /\ is_init

\* Timer::schedule_interval of posix.rs disarming the timer before it arms it.
posix_schedule_interval_disarm_first(t, timeout, interval, keep, ok) ==
    /\ backend = "posix" /\ Callable(t)
    /\ LET new_value == [it_interval |-> timespec(interval), it_value |-> timespec(timeout)]
           zeroed == timer_settime(obj[inner], ZERO_TIMER_DURATION, FALSE)
       IN obj' = [obj EXCEPT ![inner] =
                    IF ok THEN timer_settime(zeroed, new_value, keep) ELSE zeroed]
    /\ Atomic(t, IF ok THEN "schedule_interval" ELSE "schedule_interval_failed",
              timeout, interval)
    /\ UNCHANGED <<confVars, life, timerVars, heapVars, fireVars, viaNew>>

\* Timer::schedule_interval of posix.rs: `timer_settime(..) == 0`.  When the
\* native call fails (ok = FALSE, e.g. EINVAL) it leaves the timer as it was and
\* the method returns false.
posix_schedule_interval(t, timeout, interval, keep, ok) ==
    /\ backend = "posix" /\ Callable(t)
    /\ LET new_value == [it_interval |-> timespec(interval), it_value |-> timespec(timeout)]
       IN obj' = IF ok THEN [obj EXCEPT ![inner] = timer_settime(@, new_value, keep)]
                       ELSE obj
    /\ Atomic(t, IF ok THEN "schedule_interval" ELSE "schedule_interval_failed",
              timeout, interval)
    /\ UNCHANGED <<confVars, life, timerVars, heapVars, fireVars, viaNew>>

\* Timer::cancel of posix.rs with the is_scheduled() test inverted.
posix_cancel_inverted(t) ==
    /\ backend = "posix" /\ Callable(t)
    /\ IF ~posix_is_scheduled THEN Enter(t, "cancel", "cancel_settime", 0)
                              ELSE Atomic(t, "cancel", 0, 0)
    /\ UNCHANGED <<confVars, life, timerVars, heapVars, obj, fireVars, viaNew>>

\* Timer::cancel of posix.rs: `if self.is_scheduled()`.
posix_cancel(t) ==
    /\ backend = "posix" /\ Callable(t)
    /\ IF posix_is_scheduled THEN Enter(t, "cancel", "cancel_settime", 0)
                             ELSE Atomic(t, "cancel", 0, 0)
    /\ UNCHANGED <<confVars, life, timerVars, heapVars, obj, fireVars, viaNew>>

\* Timer::cancel of posix.rs without the timer_settime call.
posix_cancel_settime_skip(t) ==
    /\ backend = "posix" /\ pc[t] = "cancel_settime"
    /\ IF op[t] = "drop" THEN Goto(t, "drop_destroy") ELSE Leave(t, "cancel")
    /\ UNCHANGED <<confVars, life, timerVars, heapVars, obj, fireVars, viaNew>>

\* Timer::cancel of posix.rs: timer_settime(inner, 0, zeroed, null).
posix_cancel_settime(t) ==
    /\ backend = "posix" /\ pc[t] = "cancel_settime"
    /\ obj' = [obj EXCEPT ![inner] = timer_settime(@, ZERO_TIMER_DURATION, FALSE)]
    /\ IF op[t] = "drop" THEN Goto(t, "drop_destroy") ELSE Leave(t, "cancel")
    /\ UNCHANGED <<confVars, life, timerVars, heapVars, fireVars, viaNew>>

\* suspend() of apple.rs calling dispatch_suspend whatever the compare_exchange
\* returned.
apple_suspend_cas_unguarded(t, o) ==
    /\ backend = "apple" /\ Callable(t)
    /\ suspend' = TRUE
    /\ Enter(t, o, "suspend_native", 0)
    /\ UNCHANGED <<confVars, life, inner, data, heapVars, obj, fireVars, viaNew>>

\* Entry of schedule_once, schedule_interval ("schedule") and cancel of apple.rs:
\* get_inner(), then suspend()'s compare_exchange(false, true).
apple_suspend_cas(t, o) ==
    /\ backend = "apple" /\ Callable(t)
    /\ LET r == compare_exchange(suspend, FALSE, TRUE)
       IN /\ suspend' = r.val
          /\ IF r.ok THEN Enter(t, o, "suspend_native", 0)
             ELSE IF o = "cancel" THEN Atomic(t, "cancel", 0, 0)
             ELSE Enter(t, o, "set_timer", 0)
    /\ UNCHANGED <<confVars, life, inner, data, heapVars, obj, fireVars, viaNew>>

\* Timer::suspend of apple.rs, Ok(false) arm: dispatch_suspend(get_inner()).
apple_suspend_native(t) ==
    /\ backend = "apple" /\ pc[t] = "suspend_native"
    /\ obj' = [obj EXCEPT ![inner] = dispatch_suspend(@)]
    /\ IF op[t] = "cancel" THEN Leave(t, "cancel") ELSE Goto(t, "set_timer")
    /\ UNCHANGED <<confVars, life, timerVars, heapVars, fireVars, viaNew>>

\* schedule_once of apple.rs passing a zero interval in place of
\* DISPATCH_TIME_FOREVER.
apple_set_timer_zero_interval(t, once, timeout, interval) ==
    /\ backend = "apple" /\ pc[t] = "set_timer"
    /\ obj' = [obj EXCEPT ![inner] = dispatch_source_set_timer(@,
                 IF once THEN 0 ELSE interval)]
    /\ pc' = [pc EXCEPT ![t] = "resume_cas"]
    /\ hist' = IF once THEN Record("schedule_once", timeout, 0)
                        ELSE Record("schedule_interval", timeout, interval)
    /\ UNCHANGED <<op, cur>>
    /\ UNCHANGED <<confVars, life, timerVars, heapVars, fireVars, viaNew>>

\* schedule_once / schedule_interval of apple.rs: dispatch_walltime, then
\* dispatch_source_set_timer with DISPATCH_TIME_FOREVER (once) or
\* interval.as_nanos().  The two methods differ in this step alone; which one
\* the caller is in is recorded here.
apple_set_timer(t, once, timeout, interval) ==
    /\ backend = "apple" /\ pc[t] = "set_timer"
    /\ obj' = [obj EXCEPT ![inner] = dispatch_source_set_timer(@,
                 IF once THEN DISPATCH_TIME_FOREVER ELSE interval)]
    /\ pc' = [pc EXCEPT ![t] = "resume_cas"]
    /\ hist' = IF once THEN Record("schedule_once", timeout, 0)
                        ELSE Record("schedule_interval", timeout, interval)
    /\ UNCHANGED <<op, cur>>
    /\ UNCHANGED <<confVars, life, timerVars, heapVars, fireVars, viaNew>>

\* Timer::resume of apple.rs: compare_exchange(true, false).
apple_resume_cas(t) ==
    /\ backend = "apple" /\ pc[t] = "resume_cas"
    /\ LET r == compare_exchange(suspend, TRUE, FALSE)
       IN /\ suspend' = r.val
          /\ IF r.ok THEN Goto(t, "resume_native")
             ELSE IF op[t] = "drop" THEN Goto(t, "drop_destroy")
             ELSE Leave(t, op[t])
    /\ UNCHANGED <<confVars, life, inner, data, heapVars, obj, fireVars, viaNew>>

\* Timer::resume of apple.rs, Ok(true) arm: dispatch_resume(get_inner()).
apple_resume_native(t) ==
    /\ backend = "apple" /\ pc[t] = "resume_native"
    /\ obj' = [obj EXCEPT ![inner] = dispatch_resume(@)]
    /\ IF op[t] = "drop" THEN Goto(t, "drop_destroy") ELSE Leave(t, op[t])
    /\ UNCHANGED <<confVars, life, timerVars, heapVars, fireVars, viaNew>>

\* win32.rs schedule_interval: a Duration of whole seconds as a relative
\* FILETIME, the negated count of 100 ns ticks.
FileTime(timeout) == <<"filetime", 0 - (timeout * 10000000)>>

\* win32.rs schedule_interval: interval.as_millis() of a Duration of whole
\* seconds (the durations in range stay below 2^32 ms).
as_millis(interval) == interval * 1000

\* Timer::schedule_interval of win32.rs
win32_schedule_interval(t, timeout, interval) ==
    /\ backend = "win32" /\ Callable(t)
    /\ obj' = [obj EXCEPT ![inner] =
                 SetThreadpoolTimerEx(@, FileTime(timeout), as_millis(interval))]
    /\ Atomic(t, "schedule_interval", timeout, interval)
    /\ UNCHANGED <<confVars, life, timerVars, heapVars, fireVars, viaNew>>

\* Timer::cancel of win32.rs: SetThreadpoolTimerEx(handle, null, 0, 0).
win32_cancel(t) ==
    /\ backend = "win32" /\ Callable(t)
    /\ obj' = [obj EXCEPT ![inner] = SetThreadpoolTimerEx(@, Null, 0)]
    /\ Enter(t, "cancel", "cancel_wait", 0)
    /\ UNCHANGED <<confVars, life, timerVars, heapVars, fireVars, viaNew>>

\* Timer::cancel of win32.rs returning without WaitForThreadpoolTimerCallbacks.
win32_cancel_no_wait(t) ==
    /\ backend = "win32" /\ pc[t] = "cancel_wait"
    /\ IF op[t] = "drop" THEN Goto(t, "drop_destroy") ELSE Leave(t, "cancel")
    /\ UNCHANGED <<confVars, life, timerVars, heapVars, obj, fireVars, viaNew>>

\* Timer::cancel of win32.rs: WaitForThreadpoolTimerCallbacks(handle, 1) returns
\* once no callback of the timer is outstanding.
win32_cancel_wait(t) ==
    /\ backend = "win32" /\ pc[t] = "cancel_wait"
    /\ inflight[inner] = 0
    /\ IF op[t] = "drop" THEN Goto(t, "drop_destroy") ELSE Leave(t, "cancel")
    /\ UNCHANGED <<confVars, life, timerVars, heapVars, obj, fireVars, viaNew>>

----------------------------------------------------------------------------
(* The native side: expiry dispatches the trampoline on a thread of its    *)
(* own; the trampoline then runs the callable.                             *)

\* Whether native object o may dispatch a firing now.
CanFire(o) ==
    /\ o.st = "live" /\ o.armed
    /\ backend = "apple" => (o.susp = 0 /\ ~o.cancelled)

\* Expiry of native object c: the firing is dispatched; a one-shot timer is
\* disarmed by it.
expire(c) ==
    /\ CanFire(obj[c]) /\ started < FireCap
    /\ started' = started + 1
    /\ inflight' = [inflight EXCEPT ![c] = @ + 1]
    /\ obj' = [obj EXCEPT ![c] = IF @.periodic THEN @
                                 ELSE [@ EXCEPT !.armed = FALSE, !.interval = 0]]
    /\ UNCHANGED <<confVars, life, timerVars, heapVars, threadVars, viaNew, hist>>

\* timer_callback, timer_callback_unsafe, timer_callback_generic::<F> applied to
\* word w: the Callback whose callable runs (0: none) and whether the word is
\* something else than the trampoline takes it for.  The apple.rs and posix.rs
\* trampolines return at once on a null word; the win32.rs ones do not test it.
trampoline(f, w) ==
    CASE f = "none" -> [calls |-> 0, bad |-> FALSE]
      [] w = Null -> [calls |-> 0, bad |-> backend = "win32"]
      [] f \in {"timer_callback", "timer_callback_unsafe"} ->
           IF w[1] = "fn" THEN [calls |-> w[2], bad |-> FALSE]
                          ELSE [calls |-> 0, bad |-> TRUE]
      [] f = "timer_callback_generic" ->
           IF w[1] = "heap" /\ heap[w[2]] = "live"
               THEN [calls |-> w[2], bad |-> FALSE]
               ELSE [calls |-> 0, bad |-> TRUE]

\* A dispatched firing of native object c runs its trampoline to the end.
run(c) ==
    /\ inflight[c] > 0
    /\ inflight' = [inflight EXCEPT ![c] = @ - 1]
    /\ UNCHANGED <<confVars, life, timerVars, heapVars, obj, threadVars, viaNew, started, hist>>

\* WaitForThreadpoolTimerCallbacks(timer, fCancelPendingCallbacks = 1): a firing
\* that is queued and has not begun is cancelled.
win32_cancel_pending(t) ==
    /\ backend = "win32" /\ pc[t] = "cancel_wait"
    /\ inflight[inner] > 0
    /\ inflight' = [inflight EXCEPT ![inner] = @ - 1]
    /\ UNCHANGED <<confVars, life, timerVars, heapVars, obj, threadVars, viaNew, started, hist>>

----------------------------------------------------------------------------
(* Drop for Timer.  The owner holds the Timer exclusively: no call is in   *)
(* progress and none follows.                                              *)

\* Drop::drop without the test of the handle.
drop_no_handle_test ==
    /\ life = "alive" /\ \A t \in Threads : ~Busy(t)
    /\ life' = "dropping"
    /\ pc' = [pc EXCEPT ![Owner] = "drop_cancel"]
    /\ op' = [op EXCEPT ![Owner] = "drop"]
    /\ hist' = <<>>
    /\ UNCHANGED <<confVars, timerVars, heapVars, obj, fireVars, cur, viaNew>>

\* Entry of Drop::drop on all three backends: `let handle = self.inner.load(Relaxed)`.
drop ==
    /\ life = "alive" /\ \A t \in Threads : ~Busy(t)
    /\ life' = "dropping"
    /\ pc' = [pc EXCEPT ![Owner] = IF inner # 0 THEN "drop_cancel" ELSE "drop_data"]
    /\ op' = [op EXCEPT ![Owner] = "drop"]
    /\ hist' = <<>>
    /\ UNCHANGED <<confVars, timerVars, heapVars, obj, fireVars, cur, viaNew>>

\* posix.rs drop: self.cancel(), whose first step is is_scheduled().
posix_drop_cancel ==
    /\ backend = "posix" /\ pc[Owner] = "drop_cancel"
    /\ IF posix_is_scheduled THEN Goto(Owner, "cancel_settime")
                             ELSE Goto(Owner, "drop_destroy")
    /\ UNCHANGED <<confVars, life, timerVars, heapVars, obj, fireVars, viaNew>>

\* posix.rs drop without ffi::timer_delete(handle).
posix_drop_destroy_skip ==
    /\ backend = "posix" /\ pc[Owner] = "drop_destroy"
    /\ Goto(Owner, "drop_data")
    /\ UNCHANGED <<confVars, life, timerVars, heapVars, obj, fireVars, viaNew>>

\* posix.rs drop: ffi::timer_delete(handle).
posix_drop_destroy ==
    /\ backend = "posix" /\ pc[Owner] = "drop_destroy"
    /\ obj' = [obj EXCEPT ![inner] = timer_delete(@)]
    /\ Goto(Owner, "drop_data")
    /\ UNCHANGED <<confVars, life, timerVars, heapVars, fireVars, viaNew>>

\* apple.rs drop: ffi::dispatch_source_cancel(handle).
apple_drop_cancel ==
    /\ backend = "apple" /\ pc[Owner] = "drop_cancel"
    /\ obj' = [obj EXCEPT ![inner] = dispatch_source_cancel(@)]
    /\ Goto(Owner, "resume_cas")
    /\ UNCHANGED <<confVars, life, timerVars, heapVars, fireVars, viaNew>>

\* apple.rs drop: ffi::dispatch_release(handle).
apple_drop_destroy ==
    /\ backend = "apple" /\ pc[Owner] = "drop_destroy"
    /\ obj' = [obj EXCEPT ![inner] = dispatch_release(@)]
    /\ Goto(Owner, "drop_data")
    /\ UNCHANGED <<confVars, life, timerVars, heapVars, fireVars, viaNew>>

\* apple.rs and posix.rs: the fields go out of scope after Drop::drop; the
\* BoxFnPtr in `data` reclaims the closure it holds.
unix_drop_data ==
    /\ backend \in {"apple", "posix"} /\ pc[Owner] = "drop_data"
    /\ heap' = BoxFnPtr_drop(heap, data)
    /\ life' = "dead"
    /\ pc' = [pc EXCEPT ![Owner] = "idle"]
    /\ op' = [op EXCEPT ![Owner] = "none"]
    /\ UNCHANGED <<confVars, timerVars, kind, initRet, obj, fireVars, cur, viaNew, hist>>

\* win32.rs drop: self.cancel(), whose first step is SetThreadpoolTimerEx(handle, null, 0, 0).
win32_drop_cancel ==
    /\ backend = "win32" /\ pc[Owner] = "drop_cancel"
    /\ obj' = [obj EXCEPT ![inner] = SetThreadpoolTimerEx(@, Null, 0)]
    /\ Goto(Owner, "cancel_wait")
    /\ UNCHANGED <<confVars, life, timerVars, heapVars, fireVars, viaNew>>

\* win32.rs drop: ffi::CloseThreadpoolTimer(handle).
win32_drop_destroy ==
    /\ backend = "win32" /\ pc[Owner] = "drop_destroy"
    /\ obj' = [obj EXCEPT ![inner] = CloseThreadpoolTimer(@)]
    /\ Goto(Owner, "drop_data")
    /\ UNCHANGED <<confVars, life, timerVars, heapVars, fireVars, viaNew>>

\* win32.rs drop without the reclamation of `data`.
win32_drop_data_leak ==
    /\ backend = "win32" /\ pc[Owner] = "drop_data"
    /\ life' = "dead"
    /\ pc' = [pc EXCEPT ![Owner] = "idle"]
    /\ op' = [op EXCEPT ![Owner] = "none"]
    /\ UNCHANGED <<confVars, timerVars, heapVars, obj, fireVars, cur, viaNew, hist>>

\* win32.rs drop: `if data != 0 { Box::from_raw(transmute(data)) }`.
win32_drop_data ==
    /\ backend = "win32" /\ pc[Owner] = "drop_data"
    /\ heap' = IF data # Null THEN Box_from_raw(heap, data[2]) ELSE heap
    /\ life' = "dead"
    /\ pc' = [pc EXCEPT ![Owner] = "idle"]
    /\ op' = [op EXCEPT ![Owner] = "none"]
    /\ UNCHANGED <<confVars, timerVars, kind, initRet, obj, fireVars, cur, viaNew, hist>>

----------------------------------------------------------------------------
\* The steps a single caller, the native side and the owner can take.
NextSeq ==
    \/ uninit
    \/ \E k \in Kinds, ok \in BOOLEAN : posix_new(k, ok)
    \/ \E k \in Kinds, ok \in BOOLEAN : apple_new(k, ok)
    \/ \E k \in Kinds, ok \in BOOLEAN : win32_new(k, ok)
    \/ \E t \in Threads, k \in Kinds : init(t, k)
    \/ \E t \in Threads, ok \in BOOLEAN : posix_init_create(t, ok)
    \/ \E t \in Threads : posix_init_cas(t)
    \/ \E t \in Threads : posix_init_set_data(t)
    \/ \E t \in Threads, ok \in BOOLEAN : apple_init_create(t, ok)
    \/ \E t \in Threads : apple_init_cas(t)
    \/ \E t \in Threads : apple_init_set_handler(t)
    \/ \E t \in Threads : apple_init_set_context(t)
    \/ \E t \in Threads : apple_init_set_data(t)
    \/ \E t \in Threads, ok \in BOOLEAN : win32_init_create(t, ok)
    \/ \E t \in Threads : win32_init_cas(t)
    \/ \E t \in Threads : win32_init_set_data(t)
    \/ \E t \in Threads, timeout \in Durations, interval \in Durations :
          \E keep \in IF timeout = 0 /\ interval # 0 THEN BOOLEAN ELSE {FALSE} :
             \E ok \in BOOLEAN : posix_schedule_interval(t, timeout, interval, keep, ok)
    \/ \E t \in Threads : posix_cancel(t)
    \/ \E t \in Threads \cup {Owner} : posix_cancel_settime(t)
    \/ \E t \in Threads, o \in Suspending : apple_suspend_cas(t, o)
    \/ \E t \in Threads : apple_suspend_native(t)
    \/ \E t \in Threads, once \in BOOLEAN, timeout \in Durations, interval \in Durations :
          apple_set_timer(t, once, timeout, interval)
    \/ \E t \in Threads \cup {Owner} : apple_resume_cas(t)
    \/ \E t \in Threads \cup {Owner} : apple_resume_native(t)
    \/ \E t \in Threads, timeout \in Durations, interval \in Durations :
          win32_schedule_interval(t, timeout, interval)
    \/ \E t \in Threads : win32_cancel(t)
    \/ \E t \in Threads \cup {Owner} : win32_cancel_wait(t)
    \/ \E t \in Threads \cup {Owner} : win32_cancel_pending(t)
    \/ \E c \in CbIds : expire(c)
    \/ \E c \in CbIds : run(c)
    \/ drop
    \/ posix_drop_cancel
    \/ posix_drop_destroy
    \/ apple_drop_cancel
    \/ apple_drop_destroy
    \/ unix_drop_data
    \/ win32_drop_cancel
    \/ win32_drop_destroy
    \/ win32_drop_data

\* With racing callers a compare_exchange of init can lose.
Next ==
    \/ NextSeq
    \/ \E t \in Threads : posix_init_destroy(t)
    \/ \E t \in Threads : apple_init_destroy(t)
    \/ \E t \in Threads : win32_init_destroy(t)

Spec == Init /\ [][Next]_vars

SpecSeq == InitSeq /\ [][NextSeq]_vars

\* A single caller, with a native side that delivers the firings a timer is
\* armed for and runs each dispatched trampoline to its end.
SpecLive ==
    /\ InitSeq /\ [][NextSeq]_vars
    /\ WF_vars(\E c \in CbIds : expire(c))
    /\ WF_vars(\E c \in CbIds : run(c))

----------------------------------------------------------------------------
(* Conversion of Durations to the integers handed to the native timer.    *)
(* Numbers wider than 31 bits are little-endian sequences of 16-bit       *)
(* digits without leading zero digits, so every width is the real one.    *)

Base == 2^16

RECURSIVE FromInt(_)
FromInt(n) == IF n = 0 THEN <<>> ELSE <<n % Base>> \o FromInt(n \div Base)

\* s * k + carry, for k <= 1000
RECURSIVE MulSmall(_, _, _)
MulSmall(s, k, carry) ==
    IF s = <<>>
    THEN FromInt(carry)
    ELSE LET v == Head(s) * k + carry
         IN IF Tail(s) = <<>> /\ v = 0 THEN <<>>
            ELSE <<v % Base>> \o MulSmall(Tail(s), k, v \div Base)

\* time::Duration of whole seconds: k * 1000 + r seconds (a u64)
Secs(k, r) == MulSmall(FromInt(k), 1000, r)

\* Durations around the ends of the native ranges: 0 s, 1 s, the last whole
\* second below and the first above 2^32 ms, 2^63 ns and 2^64 ns.
BigSecs == {Secs(0, 0), Secs(0, 1),
            Secs(4294, 967), Secs(4294, 968),
            Secs(9223372, 36), Secs(9223372, 37),
            Secs(18446744, 73), Secs(18446744, 74)}

\* Duration::as_millis and Duration::as_nanos: u128
Duration_as_millis(d) == MulSmall(d, 1000, 0)
Duration_as_nanos(d) == MulSmall(MulSmall(MulSmall(d, 1000, 0), 1000, 0), 1000, 0)

\* Rust's `as` between integer types keeps the low bits of the value.
LowDigits(s, n) == [i \in 1..n |-> IF i <= Len(s) THEN s[i] ELSE 0]

\* `as u32`, `as u64`; `as i64` gives the 64-bit two's complement pattern
as_u32(s) == LowDigits(s, 2)
as_u64(s) == LowDigits(s, 4)
as_i64(s) == LowDigits(s, 4)

U32_MAX == <<Base - 1, Base - 1>>
U64_MAX == <<Base - 1, Base - 1, Base - 1, Base - 1>>
I64_MAX == <<Base - 1, Base - 1, Base - 1, (Base \div 2) - 1>>

\* the u128 value is above u32::MAX, u64::MAX, i64::MAX
AboveU32(s) == Len(s) > 2
AboveU64(s) == Len(s) > 4
AboveI64(s) == Len(s) > 4 \/ (Len(s) = 4 /\ s[4] >= Base \div 2)

\* win32.rs schedule_interval: the msPeriod argument of SetThreadpoolTimerEx
win32_schedule_interval_args ==
    /\ backend = "win32" /\ native = <<>>
    /\ native' = <<"SetThreadpoolTimerEx", as_u32(Duration_as_millis(arg[2]))>>
    /\ UNCHANGED <<backend, seq, arg, life, timerVars, heapVars, fireVars,
                   threadVars, obj, viaNew, hist>>

\* apple.rs schedule_interval: the delta of dispatch_walltime and the interval
\* of dispatch_source_set_timer
apple_schedule_interval_args ==
    /\ backend = "apple" /\ native = <<>>
    /\ native' = <<"dispatch_source_set_timer", as_i64(Duration_as_nanos(arg[1])),
                   as_u64(Duration_as_nanos(arg[2]))>>
    /\ UNCHANGED <<backend, seq, arg, life, timerVars, heapVars, fireVars,
                   threadVars, obj, viaNew, hist>>

\* apple.rs schedule_once: the delta of dispatch_walltime
apple_schedule_once_args ==
    /\ backend = "apple" /\ native = <<>>
    /\ native' = <<"dispatch_walltime", as_i64(Duration_as_nanos(arg[1]))>>
    /\ UNCHANGED <<backend, seq, arg, life, timerVars, heapVars, fireVars,
                   threadVars, obj, viaNew, hist>>

InitCast ==
    /\ InitTimer /\ seq = TRUE /\ backend # "posix"
    /\ arg \in BigSecs \X BigSecs
    /\ native = <<>>

NextCast ==
    \/ win32_schedule_interval_args
    \/ apple_schedule_interval_args
    \/ apple_schedule_once_args

\* Schedule calls with Durations around the ends of the native ranges.
SpecCast == InitCast /\ [][NextCast]_vars

TypeOK ==
    /\ backend \in Backends
    /\ life \in {"unborn", "alive", "absent", "dropping", "dead"}
    /\ inner \in 0..MaxCb
    /\ suspend \in BOOLEAN
    /\ \A c \in CbIds : heap[c] \in {"none", "live", "freed", "double"}
    /\ \A c \in CbIds : inflight[c] \in 0..FireCap
    /\ started \in 0..FireCap
    /\ seq \in BOOLEAN
    /\ Len(hist) <= 2

----------------------------------------------------------------------------
(* Properties of initialization.                                           *)

\* The init/new calls that returned true.
Winners == {c \in CbIds : initRet[c] = "true"}

\* The Timer value and the native object its handle names.
TimerValue ==
    [inner |-> inner, data |-> data, suspend |-> suspend, native |-> obj[inner]]

\* C1: when init calls race on an uninitialized Timer and every native creation
\* succeeds, at most one call returns true at any time, exactly one has returned
\* true once all have returned, and from then on is_init holds and the handle
\* slot names the native object the winning call created.
C1_ExactlyOneInitWins ==
    (~viaNew /\ \A c \in CbIds : obj[c].st # "failed") =>
        /\ Cardinality(Winners) <= 1
        /\ \A c \in Winners : is_init /\ inner = c
        /\ \A c \in Winners : life = "alive" => (handleOf(c) = c /\ obj[inner].st = "live")
        /\ ((\E c \in CbIds : initRet[c] # "none")
              /\ (\A c \in CbIds : initRet[c] # "running")) => Cardinality(Winners) = 1

\* C1 witness: two calls raced past the is_init test, each created a native
\* object, one returned true and the other destroyed its object and returned false.
C1_Witness ==
    /\ ~viaNew /\ life = "alive"
    /\ \E w, l \in CbIds :
          /\ initRet[w] = "true" /\ initRet[l] = "false"
          /\ inner = w /\ obj[w].st = "live" /\ obj[l].st = "closed"

\* C2 as stated: at most one callback is committed, and the callback of a call
\* that returned false was never installed into any native object.
C2_LoserNeverInstalled ==
    /\ Cardinality(Winners) <= 1
    /\ \A c \in CbIds : initRet[c] = "false" =>
          /\ obj[c].cb = "none" /\ obj[c].ctx = Null
          /\ inflight[c] = 0

\* C2 amended: at most one callback is committed; a losing call's callback is
\* never in the published native object nor in callback storage, and a native
\* object that is not the published one is never armed and never fires, so the
\* loser's callback is never invoked.
C2_LoserNeverCommitted ==
    /\ Cardinality(Winners) <= 1
    /\ \A c \in CbIds : initRet[c] = "false" =>
          /\ inner # c
          /\ is_init => (obj[inner].ctx = Null \/ obj[inner].ctx[2] # c)
          /\ data = Null \/ data[2] # c
    /\ \A c \in CbIds : c # inner => (~obj[c].armed /\ inflight[c] = 0)

\* C2 witness: a losing call installed its callback in its own native object,
\* destroyed it, and the winner's object has a firing in flight.
C2_Witness ==
    \E w, l \in CbIds :
        /\ initRet[w] = "true" /\ initRet[l] = "false" /\ inner = w
        /\ obj[l].st = "closed" /\ obj[l].cb # "none" /\ obj[l].ctx # Null
        /\ inflight[w] > 0

\* C3: an init call that finds the Timer initialized returns false in that very
\* step and leaves the handle, the callback storage and every native object as
\* they were; whenever a later call has returned false after a call returned
\* true, the handle is still the winner's and the storage is still empty for a
\* plain winner and still the winner's closure for a closure winner.
C3_InitOnInitializedRejected ==
    /\ [](\A w, l \in CbIds :
            (initRet[w] = "true" /\ initRet[l] = "false" /\ l > w /\ life = "alive") =>
                /\ inner = w
                /\ data = (IF kind[w] = "closure" THEN HeapAddr(w) ELSE Null))
    /\ [][\A c \in CbIds :
            (is_init /\ initRet[c] = "none" /\ initRet'[c] # "none") =>
                /\ initRet'[c] = "false"
                /\ inner' = inner /\ data' = data /\ obj' = obj
                /\ heap'[c] # "live"]_vars

\* C3 witness: a closure was committed first, then an init with a plain
\* callback was rejected without creating a native object.
C3_Witness ==
    \E w, l \in CbIds :
        /\ initRet[w] = "true" /\ kind[w] = "closure"
        /\ initRet[l] = "false" /\ kind[l] = "plain" /\ obj[l].st = "none"
        /\ life = "alive" /\ inner = w /\ data = HeapAddr(w)

\* C4 as stated: for a single caller, right after uninit() and a successful
\* init(cb), before any schedule or cancel, the Timer and its native object are
\* what new(cb) yields for the same callback: same handle state, same callback
\* storage, same armed state, same trampoline and same context word.
C4_NewEqualsUninitInit ==
    \A c \in CbIds :
        (seq /\ ~viaNew /\ initRet[c] = "true" /\ life = "alive"
             /\ pc[1] = "idle" /\ hist = <<>> /\ started = 0) =>
            TimerValue = CASE backend = "posix" -> posix_new_timer(kind[c], c)
                           [] backend = "apple" -> apple_new_timer(kind[c], c)
                           [] backend = "win32" -> win32_new_timer(kind[c], c)

\* C5 as stated: after a successful init or new with a closure, the context
\* word in the native object is the heap address of the closure, the same word
\* as callback storage, and the closure is alive there.
C5_ContextIsHeapAddress ==
    \A c \in CbIds :
        (initRet[c] = "true" /\ kind[c] = "closure" /\ life = "alive") =>
            /\ obj[inner].ctx = HeapAddr(c)
            /\ obj[inner].ctx = data
            /\ heap[c] = "live"

----------------------------------------------------------------------------
(* Properties of destruction.                                              *)

\* C6: a closure is never reclaimed twice; while an initialized Timer lives its
\* storage holds the committed closure, alive, if the callback was a closure and
\* is empty if it was plain; the step that ends destruction reclaims exactly the
\* committed closure if there is one and reclaims nothing otherwise.
C6_DestructionReclaimsOnce ==
    /\ [](\A c \in CbIds : heap[c] # "double")
    /\ [](\A c \in Winners :
            /\ life \in {"alive", "dropping"} =>
                  IF kind[c] = "closure" THEN data = HeapAddr(c) /\ heap[c] = "live"
                                         ELSE data = Null
            /\ life = "dead" => (kind[c] = "closure" => heap[c] = "freed"))
    /\ [][\A c \in Winners :
            (life = "dropping" /\ life' = "dead") =>
                heap' = IF kind[c] = "closure" THEN [heap EXCEPT ![c] = "freed"]
                                               ELSE heap]_vars

\* C6 witness: a Timer whose committed closure has fired was destroyed, and
\* the closure its storage named is reclaimed.
C6_Witness ==
    /\ life = "dead" /\ started > 0
    /\ \E c \in Winners : kind[c] = "closure" /\ heap[c] = "freed" /\ data = HeapAddr(c)

\* C7 as stated: once destruction has reclaimed the closure storage, no firing
\* is in flight and no native object can dispatch one.
C7_NoFiringAtReclaim ==
    (life = "dead" /\ data # Null) =>
        \A c \in CbIds : inflight[c] = 0 /\ ~CanFire(obj[c])

----------------------------------------------------------------------------
(* Properties of schedule and cancel, for a single caller.                 *)

\* The last completed schedule/cancel call is cancel, and no call is in progress.
CancelReturned ==
    /\ seq /\ life = "alive" /\ pc[1] = "idle"
    /\ hist # <<>> /\ hist[Len(hist)][1] = "cancel"

\* A schedule_interval call with a non-zero timeout and a non-zero interval: it
\* arms the timer as periodic on every backend.
PeriodicCall == <<"schedule_interval", 1, 1>>

\* C8 as stated: once cancel has returned on a timer armed as periodic and
\* until a later schedule, no firing can be dispatched and none is in flight
\* that would still run the callable.
C8_NoInvocationAfterCancel ==
    (CancelReturned /\ Len(hist) = 2 /\ hist[1] = PeriodicCall) =>
        \A c \in CbIds :
            /\ ~CanFire(obj[c])
            /\ inflight[c] > 0 => trampoline(obj[c].cb, obj[c].ctx).calls = 0

\* C8 amended: once cancel has returned and until a later schedule, no new
\* firing can be dispatched on any backend; on the thread-pool backend no
\* firing is in flight either.
C8_NoNewFiringAfterCancel ==
    CancelReturned =>
        /\ \A c \in CbIds : ~CanFire(obj[c])
        /\ backend = "win32" => \A c \in CbIds : inflight[c] = 0

\* C8 witness: a periodic timer fired, cancel returned while the firing was
\* still in flight, and the timer stays suspended.
C8_Witness ==
    /\ CancelReturned /\ hist = <<PeriodicCall, <<"cancel", 0, 0>>>>
    /\ obj[inner].armed /\ obj[inner].periodic
    /\ inflight[inner] > 0

\* C9: schedule_once or schedule_interval, then cancel, then is_scheduled():
\* false on the dispatch-queue and POSIX backends.
C9_CancelClearsScheduled ==
    (/\ seq /\ life = "alive" /\ pc[1] = "idle"
     /\ backend \in {"apple", "posix"}
     /\ Len(hist) = 2 /\ hist[1][1] \in {"schedule_once", "schedule_interval"}
     /\ hist[2][1] = "cancel") => ~is_scheduled

\* C9 witness: on POSIX a timer armed with an interval fired before cancel
\* disarmed it.
C9_Witness ==
    /\ seq /\ life = "alive" /\ pc[1] = "idle" /\ backend = "posix"
    /\ hist = <<PeriodicCall, <<"cancel", 0, 0>>>>
    /\ started > 0 /\ ~obj[inner].armed

\* C10 as stated: when schedule_interval has just returned (true) and nothing
\* has fired, is_scheduled() is true on the dispatch-queue and POSIX backends.
C10_ScheduledAfterScheduleInterval ==
    (/\ seq /\ life = "alive" /\ pc[1] = "idle"
     /\ backend \in {"apple", "posix"}
     /\ hist # <<>> /\ hist[Len(hist)][1] = "schedule_interval"
     /\ started = 0) => is_scheduled

\* Every call in the record of the single caller is a cancel: the Timer was
\* never scheduled and cancelled once, or cancelled at least twice in a row.
OnlyCancels ==
    /\ seq /\ life = "alive" /\ pc[1] = "idle"
    /\ hist # <<>> /\ \A i \in 1..Len(hist) : hist[i][1] = "cancel"

\* C11: after any number of consecutive cancel calls on an unarmed Timer,
\* is_scheduled() is false (dispatch-queue, POSIX) and the native state is that
\* of a single cancel: the source is suspended exactly once, the POSIX timer
\* reads a zero itimerspec, the thread-pool timer is stopped.
C11_CancelIdempotent ==
    OnlyCancels =>
        /\ backend \in {"apple", "posix"} => ~is_scheduled
        /\ backend = "apple" => (suspend /\ obj[inner].susp = 1)
        /\ backend = "posix" => timer_gettime(obj[inner]) = ZERO_TIMER_DURATION
        /\ ~CanFire(obj[inner])

\* C11 witness: a Timer that was never scheduled has been cancelled twice on
\* the dispatch-queue backend.
C11_Witness ==
    /\ OnlyCancels /\ Len(hist) = 2 /\ backend = "apple"
    /\ started = 0 /\ ~obj[inner].armed /\ obj[inner].susp = 1

----------------------------------------------------------------------------
(* Properties of firing, for a single caller and a fair native side.       *)

\* The only schedule/cancel call made so far on the Timer is call, it has
\* returned, and the Timer is alive.
OnlyCall(call) ==
    /\ seq /\ life = "alive" /\ pc[1] = "idle"
    /\ hist = <<call>>

\* At least one dispatched firing of the published native object has run its
\* trampoline to the end, and the trampoline runs the callable.
Invoked ==
    /\ started > 0 /\ inflight[inner] < started
    /\ trampoline(obj[inner].cb, obj[inner].ctx).calls # 0

\* C12 as stated: on a Timer built by new, once schedule_interval(0, interval)
\* with a non-zero interval has returned and as long as no other call follows,
\* the callback is eventually invoked.
C12_ZeroTimeoutEventuallyFires ==
    (viaNew /\ OnlyCall(<<"schedule_interval", 0, 1>>))
        ~> (~OnlyCall(<<"schedule_interval", 0, 1>>) \/ Invoked)

\* The only schedule/cancel call made so far is a schedule_once, on a Timer that
\* was therefore unarmed, and it has returned.
OnceOnly == \E d \in Durations : OnlyCall(<<"schedule_once", d, 0>>)

\* C13: after schedule_once on an initialized, unarmed Timer and as long as no
\* other call follows, at most one firing is ever dispatched, after it the
\* native object is disarmed and cannot fire again, and with a fair native side
\* that one firing is eventually dispatched and runs the callable to its end.
C13_ScheduleOnceFiresExactlyOnce ==
    /\ [](OnceOnly =>
            /\ started <= 1
            /\ started = 1 => (~obj[inner].armed /\ \A c \in CbIds : ~CanFire(obj[c])))
    /\ OnceOnly ~> (~OnceOnly \/ (started = 1 /\ inflight[inner] = 0 /\ Invoked))

\* C13 witness: the one firing of a schedule_once has been dispatched and has
\* run to its end, and the source is disarmed.
C13_Witness ==
    /\ OnceOnly /\ backend = "apple"
    /\ started = 1 /\ inflight[inner] = 0 /\ Invoked
    /\ ~obj[inner].armed

----------------------------------------------------------------------------
(* Properties of failure paths.                                            *)

\* C14: a new whose native creation fails returns None and an init whose
\* native creation fails returns false; after only such failed inits the Timer
\* is uninitialized with empty storage; and the first init whose native
\* creation succeeds after them returns true.
C14_CreationFailure ==
    /\ \A c \in CbIds : obj[c].st = "failed" => initRet[c] \in {"running", "false"}
    /\ viaNew => ((life = "absent") <=> (obj[1].st = "failed"))
    /\ (/\ seq /\ ~viaNew /\ life = "alive" /\ pc[1] = "idle"
        /\ \A c \in CbIds : initRet[c] # "none" => obj[c].st = "failed")
          => (~is_init /\ data = Null)
    /\ \A c \in CbIds :
          (/\ seq /\ ~viaNew /\ initRet[c] \in {"true", "false"}
           /\ obj[c].st \in {"live", "closed"}
           /\ \A b \in CbIds : b < c => obj[b].st = "failed") => initRet[c] = "true"

\* C14 witness: an init whose native creation failed returned false, and the
\* next init, whose creation succeeded, returned true.
C14_Witness ==
    /\ seq /\ ~viaNew /\ life = "alive"
    /\ obj[1].st = "failed" /\ initRet[1] = "false"
    /\ obj[2].st = "live" /\ initRet[2] = "true" /\ inner = 2

\* C15: the step in which schedule_interval returns false (only the POSIX
\* method can: the others always return true) leaves every native object, the
\* suspend flag, the answer of is_scheduled() and the dispatched firings as
\* they were.
C15_FailedScheduleChangesNothing ==
    [][(/\ seq /\ hist' # hist /\ hist' # <<>>
        /\ hist'[Len(hist')][1] = "schedule_interval_failed") =>
           /\ obj' = obj /\ suspend' = suspend
           /\ is_scheduled' = is_scheduled
           /\ started' = started /\ inflight' = inflight]_vars

\* C15 witness: schedule_interval failed on a POSIX timer that an earlier call
\* had armed as periodic, and the timer is still armed and reported scheduled.
C15_Witness ==
    /\ seq /\ life = "alive" /\ pc[1] = "idle" /\ backend = "posix"
    /\ hist = <<PeriodicCall, <<"schedule_interval_failed", 0, 0>>>>
    /\ obj[inner].armed /\ obj[inner].periodic /\ is_scheduled

----------------------------------------------------------------------------
(* Properties of the conversion of Durations.                             *)

\* C16: a schedule call given a Duration above the range of the native timer
\* hands the native timer the largest value of that range: u32::MAX
\* milliseconds for the thread-pool interval, i64::MAX nanoseconds for the
\* dispatch timeout and u64::MAX nanoseconds for the dispatch interval.
C16_OutOfRangeSaturates ==
    /\ (native # <<>> /\ native[1] = "SetThreadpoolTimerEx"
          /\ AboveU32(Duration_as_millis(arg[2])))
       => native[2] = U32_MAX
    /\ (native # <<>> /\ native[1] \in {"dispatch_source_set_timer", "dispatch_walltime"}
          /\ AboveI64(Duration_as_nanos(arg[1])))
       => native[2] = I64_MAX
    /\ (native # <<>> /\ native[1] = "dispatch_source_set_timer"
          /\ AboveU64(Duration_as_nanos(arg[2])))
       => native[3] = U64_MAX

----------------------------------------------------------------------------
(* Properties of destruction and of the suspend flag.                     *)

\* C17: the destruction of a Timer that was never successfully initialized
\* (its handle slot is still zero) makes no native call and reclaims no
\* callback storage: it goes straight to the release of the empty `data`
\* field, and no native object and no allocation changes while it runs.
C17_DropUninitializedIsNoOp ==
    [][/\ (life' = "dropping" /\ inner' = 0)
            => (pc'[Owner] = "drop_data" /\ data' = Null)
       /\ (life = "dropping" /\ inner = 0)
            => (obj' = obj /\ heap' = heap /\ life' = "dead")]_vars

\* A Timer from uninit() was destroyed after an init call failed.
C17_Witness ==
    /\ life = "dead" /\ inner = 0 /\ ~viaNew
    /\ \E c \in CbIds : initRet[c] = "false"

\* C18: on the dispatch-queue backend, whatever the interleaving of
\* schedule_once, schedule_interval and cancel calls of several threads on a
\* Timer built by Timer::new, dispatch_resume is only called on a suspended
\* source, dispatch_suspend only on a source that is not suspended, and the
\* native suspend count stays in {0, 1}.
C18_SuspendResumeBalanced ==
    (backend = "apple" /\ viaNew /\ life = "alive") =>
        /\ obj[inner].susp \in {0, 1}
        /\ \A t \in Threads :
              /\ pc[t] = "resume_native" => obj[inner].susp > 0
              /\ pc[t] = "suspend_native" => obj[inner].susp = 0

----------------------------------------------------------------------------
(* Properties of the commit of a callback.                                *)

\* C19: whenever is_init() is true the winning callback is fully committed:
\* the native object the handle names has its trampoline and its context word,
\* and callback storage holds the word of the winning callback; so no caller
\* that saw is_init() can arm a native object without a handler.
C19_InitVisibleMeansCommitted ==
    (life = "alive" /\ is_init) =>
        /\ obj[inner].cb = cbOf(inner).ffi_cb
        /\ obj[inner].ctx # Null
        /\ data = into_words(cbOf(inner)).data
        /\ obj[inner].armed => obj[inner].cb # "none"

\* C20: when a new or init call given a closure callback has returned without
\* committing it (the Timer was already initialized, the native creation
\* failed, or the compare-and-swap was lost), the closure's heap allocation
\* has been reclaimed exactly once and the Timer does not hold its address.
C20_UncommittedClosureReclaimedOnce ==
    \A c \in CbIds :
        (kind[c] = "closure" /\ initRet[c] = "false") =>
            (heap[c] = "freed" /\ data # HeapAddr(c))

----------------------------------------------------------------------------
(* Properties of the native destroy calls.                                *)

\* C21: on the dispatch-queue backend dispatch_release is never called on a
\* suspended source: neither by the destruction of the Timer nor by an init
\* call that lost the compare-and-swap and releases the source it created.
C21_NoReleaseWhileSuspended ==
    backend = "apple" =>
        /\ pc[Owner] = "drop_destroy" => obj[inner].susp = 0
        /\ \A t \in Threads :
              (pc[t] = "init_destroy" /\ handleOf(cur[t]) # 0)
                  => obj[cur[t]].susp = 0

\* C22: every native timer object created by new or init is destroyed exactly
\* once: the published one is live while the Timer lives and is destroyed by
\* the Timer's destruction; the one created by an init call that lost the
\* compare-and-swap is destroyed by the time that call has returned; a destroy
\* call never meets an object that was destroyed before, and a destroyed
\* object is not touched again.
C22_NativeObjectsDestroyedOnce ==
    /\ [](\A c \in CbIds :
            /\ initRet[c] = "false" => obj[c].st \in {"none", "failed", "closed"}
            /\ (c \in Winners /\ life = "alive") => obj[c].st = "live"
            /\ life = "dead" => obj[c].st # "live")
    /\ [](pc[Owner] = "drop_destroy" => obj[inner].st = "live")
    /\ [](\A t \in Threads : pc[t] = "init_destroy" => obj[cur[t]].st \in {"live", "failed"})
    /\ [][\A c \in CbIds : obj[c].st = "closed" => obj'[c] = obj[c]]_vars

\* A racing init lost the compare-and-swap and destroyed its object, and the
\* Timer was destroyed with the winner's object.
C22_Witness ==
    /\ life = "dead" /\ inner # 0 /\ obj[inner].st = "closed"
    /\ \E c \in CbIds : c # inner /\ obj[c].st = "closed" /\ initRet[c] = "false"

\* C23: the native destroy call (dispatch_release, timer_delete,
\* CloseThreadpoolTimer) is never made with the null handle, also not by an
\* init call whose native creation failed and whose compare-and-swap lost to
\* a concurrent init.
C23_DestroyNeverNull ==
    /\ pc[Owner] = "drop_destroy" => inner # 0
    /\ \A t \in Threads : pc[t] = "init_destroy" => handleOf(cur[t]) # 0

----------------------------------------------------------------------------
(* Properties of cancel on the thread-pool backend.                       *)

\* C24: on the thread-pool backend cancel returns only when no invocation of
\* the callback is in progress: the step that returns from cancel is taken
\* with no firing outstanding, and once cancel has returned the timer is
\* disarmed, no firing is outstanding and none can be dispatched.
C24_Win32CancelWaits ==
    /\ [](backend = "win32" /\ CancelReturned =>
            /\ inflight[inner] = 0
            /\ ~obj[inner].armed /\ ~CanFire(obj[inner]))
    /\ [][(backend = "win32" /\ pc[1] = "cancel_wait" /\ pc'[1] # "cancel_wait")
            => (inflight[inner] = 0 /\ inflight' = inflight)]_vars

\* cancel returned on a Timer that was armed periodically and has fired.
C24_Witness ==
    /\ backend = "win32" /\ CancelReturned /\ started > 0
    /\ Len(hist) = 2 /\ hist[1] = PeriodicCall

----------------------------------------------------------------------------
(* Properties of the handle slot and of callback storage.                 *)

C26_SlotsWrittenOnce ==
    [][(life = "alive" /\ life' = "alive") =>
         /\ inner' # inner => (inner = 0 /\ \E t \in Threads : op[t] = "init" /\ inner' = cur[t])
         /\ data' # data => (data = Null /\ \E t \in Threads : op[t] = "init"
                                            /\ inner = cur[t] /\ data' = HeapAddr(cur[t]))
         /\ (\A t \in Threads : op[t] # "init") => (inner' = inner /\ data' = data)]_vars

\* The winning init has written both slots, and schedule and cancel calls
\* were made since.
C26_Witness ==
    /\ life = "alive" /\ ~viaNew /\ inner # 0 /\ data = HeapAddr(inner)
    /\ \E t \in Threads : op[t] \in {"schedule", "cancel"}

====
